---- MODULE Spec2Model ----
(***************************************************************************)
(* Model of the document pipeline of backend/main.py and                   *)
(* backend/extractor.py: the upload handler (store, extract, build prompt, *)
(* remove, AI call, record), the ordered model fallback of                 *)
(* call_claude_api, and the download handler with its PDF pagination loop. *)
(* Python strings are TLA+ strings; Optional values are <<>> (None) or     *)
(* <<v>>.                                                                  *)
(***************************************************************************)
EXTENDS Integers, Sequences, FiniteSets, TLC

VARIABLES
    \* process environment
    api_key,          \* os.getenv("ANTHROPIC_API_KEY"): None or <<string>>
    anthropic_lib,    \* what "import anthropic" / anthropic.Anthropic() does
    api_outcomes,     \* the outcomes the remote endpoint can give in this run
    temp_dir,         \* files stored under TEMP_DIR: path -> document bytes
    \* upload_files
    files,            \* the request's uploads, <<[filename, doc], ...>>
    pc,               \* position in upload_files / call_claude_api
    file_idx,         \* index of the file the for loop is at
    file_path,
    extracted_text,
    prompt,
    ai_response,
    results,
    upload_response,
    \* call_claude_api
    model_idx,        \* index in models_to_try the for loop is at
    max_tokens_limit,
    last_error,
    attempts,         \* requests issued by the current call, with their outcome
    call_result,      \* what call_claude_api did: return value or raise
    \* download_result
    request,          \* the DownloadRequest
    dpc,              \* position in download_result
    lines,
    line_idx,
    y,
    text_object,      \* lines written to the current text object
    drawn,            \* text objects drawn on the current page
    pages,            \* pages closed by showPage
    download_response,
    \* extract_text
    extractor_calls,  \* the format extractors the last extract_text called
    extract_outcome,  \* what the last extract_text did: return value or raise
    \* upload_files, several requests in progress
    reqs,             \* request id -> the request's position and locals
    workers           \* server processes running the app in one directory

envVars == <<api_key, anthropic_lib, api_outcomes, temp_dir>>
uploadVars == <<files, pc, file_idx, file_path, extracted_text, prompt,
                ai_response, results, upload_response>>
callVars == <<model_idx, max_tokens_limit, last_error, attempts, call_result>>
downloadVars == <<request, dpc, lines, line_idx, y, text_object, drawn, pages,
                  download_response>>
extractVars == <<extractor_calls, extract_outcome>>
concVars == <<reqs, workers>>
vars == <<envVars, uploadVars, callVars, downloadVars, extractVars, concVars>>

-----------------------------------------------------------------------------
(* Python values *)

None == <<>>
Some(v) == <<v>>

\* Python truthiness of an Optional[str]: None and "" are falsy
Falsy(v) == IF v = None THEN TRUE ELSE v[1] = ""

\* sub in s
Contains(s, sub) ==
    \E i \in 1..(Len(s) - Len(sub) + 1) : SubSeq(s, i, i + Len(sub) - 1) = sub

\* s[:n]
Prefix(s, n) == SubSeq(s, 1, IF n < Len(s) THEN n ELSE Len(s))

\* s[i:] with i a 1-based position
Suffix(s, i) == SubSeq(s, i, Len(s))

\* s.rfind(ch), 1-based; 0 when ch is not in s
RFind(s, ch) ==
    LET hits == {i \in 1..Len(s) : SubSeq(s, i, i) = ch}
    IN  IF hits = {} THEN 0 ELSE CHOOSE i \in hits : \A j \in hits : j <= i

UpperCase == <<"A","B","C","D","E","F","G","H","I","J","K","L","M",
               "N","O","P","Q","R","S","T","U","V","W","X","Y","Z">>
LowerCase == <<"a","b","c","d","e","f","g","h","i","j","k","l","m",
               "n","o","p","q","r","s","t","u","v","w","x","y","z">>

LowerChar(c) ==
    IF \E k \in 1..Len(UpperCase) : UpperCase[k] = c
    THEN LowerCase[CHOOSE k \in 1..Len(UpperCase) : UpperCase[k] = c]
    ELSE c

\* s.lower()
RECURSIVE Lower(_)
Lower(s) ==
    IF s = "" THEN "" ELSE LowerChar(SubSeq(s, 1, 1)) \o Lower(Suffix(s, 2))

\* an exception object; str(e) is its message
Exc(cls, msg) == [cls |-> cls, msg |-> msg]
Str(e) == e.msg

\* what a computation did: returned val, or raised exc
Ok(v) == [ok |-> TRUE, val |-> v, exc |-> Exc("", "")]
Raise(e) == [ok |-> FALSE, val |-> "", exc |-> e]

-----------------------------------------------------------------------------
(* extractor.py *)

(* A stored document, as the parsers see its bytes: the format the bytes    *)
(* really are, and the units a parser of that format reads in document      *)
(* order (pages, paragraphs, shapes). A unit whose err is not "" raises     *)
(* when read; a shape with has_text FALSE has no text attribute.            *)
Unit(text) == [text |-> text, has_text |-> TRUE, err |-> ""]
BadUnit(msg) == [text |-> "", has_text |-> TRUE, err |-> msg]
NoTextUnit == [text |-> "", has_text |-> FALSE, err |-> ""]
Doc(fmt, units) == [fmt |-> fmt, units |-> units]

\* os.path.splitext(p): <<root, ext>>
SplitExt(p) ==
    LET sepIndex == RFind(p, "/")
        dotIndex == RFind(p, ".")
    IN  IF /\ dotIndex > sepIndex
           /\ \E k \in (sepIndex + 1)..(dotIndex - 1) : SubSeq(p, k, k) # "."
        THEN <<Prefix(p, dotIndex - 1), Suffix(p, dotIndex)>>
        ELSE <<p, "">>

\* opening the file at path with the parser for fmt
OpenDocument(dir, path, fmt) ==
    IF path \notin DOMAIN dir
    THEN Raise(Exc("FileNotFoundError", "No such file or directory: " \o path))
    ELSE IF dir[path].fmt # fmt
    THEN Raise(Exc("Exception", "not a valid " \o fmt \o " file"))
    ELSE Ok(dir[path].units)

\* pages joined with newlines between them and none at the end
RECURSIVE PdfPagesJoined(_, _, _)
PdfPagesJoined(units, i, text) ==
    IF i > Len(units) THEN Ok(text)
    ELSE IF units[i].err # "" THEN Raise(Exc("Exception", units[i].err))
    ELSE PdfPagesJoined(units, i + 1,
                        IF i = 1 THEN units[i].text
                        ELSE text \o "\n" \o units[i].text)

\* for page in reader.pages: text += page.extract_text() + "\n"
RECURSIVE PdfPages(_, _, _)
PdfPages(units, i, text) ==
    IF i > Len(units) THEN Ok(text)
    ELSE IF units[i].err # "" THEN Raise(Exc("Exception", units[i].err))
    ELSE PdfPages(units, i + 1, text \o units[i].text \o "\n")

\* a handler that catches a missing file only
CaughtMissingFileOnly(label, body) ==
    IF body.ok \/ body.exc.cls # "FileNotFoundError" THEN body
    ELSE Ok("Error extracting " \o label \o ": " \o Str(body.exc))

\* except Exception as e: return f"Error extracting <FORMAT>: {str(e)}"
Caught(label, body) ==
    IF body.ok THEN body
    ELSE Ok("Error extracting " \o label \o ": " \o Str(body.exc))

extract_text_from_pdf(dir, path) ==
    LET reader == OpenDocument(dir, path, "pdf")
        body == IF reader.ok THEN PdfPages(reader.val, 1, "") ELSE reader
    IN  Caught("PDF", body)

\* "\n".join([para.text for para in doc.paragraphs])
RECURSIVE DocxParagraphs(_, _, _)
DocxParagraphs(units, i, text) ==
    IF i > Len(units) THEN Ok(text)
    ELSE IF units[i].err # "" THEN Raise(Exc("Exception", units[i].err))
    ELSE DocxParagraphs(units, i + 1,
                        IF i = 1 THEN units[i].text
                        ELSE text \o "\n" \o units[i].text)

extract_text_from_docx(dir, path) ==
    LET doc == OpenDocument(dir, path, "docx")
        body == IF doc.ok THEN DocxParagraphs(doc.val, 1, "") ELSE doc
    IN  Caught("DOCX", body)

\* for slide ...: for shape ...: if hasattr(shape, "text"): text += shape.text + "\n"
RECURSIVE PptxShapes(_, _, _)
PptxShapes(units, i, text) ==
    IF i > Len(units) THEN Ok(text)
    ELSE IF units[i].err # "" THEN Raise(Exc("Exception", units[i].err))
    ELSE PptxShapes(units, i + 1,
                    IF units[i].has_text THEN text \o units[i].text \o "\n"
                    ELSE text)

extract_text_from_pptx(dir, path) ==
    LET prs == OpenDocument(dir, path, "pptx")
        body == IF prs.ok THEN PptxShapes(prs.val, 1, "") ELSE prs
    IN  Caught("PPTX", body)

\* the branch of the if / elif chain of extract_text taken for ext
ExtractorFor(ext) ==
    IF ext = ".pdf" THEN "pdf"
    ELSE IF ext = ".docx" THEN "docx"
    ELSE IF ext = ".pptx" THEN "pptx"
    ELSE "none"

\* the extension as it is written, not lowercased
ExtensionAsGiven(path) == SplitExt(path)[2]

\* ext = os.path.splitext(file_path)[1].lower()
ExtensionOf(path) == Lower(SplitExt(path)[2])

\* the format extractors extract_text(path) calls, in call order
ExtractorCalls(path) ==
    LET which == ExtractorFor(ExtensionOf(path))
    IN  IF which = "none" THEN <<>> ELSE <<which>>

extract_text(dir, path) ==
    LET ext == ExtensionOf(path)
        which == ExtractorFor(ext)
    IN  IF which = "pdf" THEN extract_text_from_pdf(dir, path)
        ELSE IF which = "docx" THEN extract_text_from_docx(dir, path)
        ELSE IF which = "pptx" THEN extract_text_from_pptx(dir, path)
        ELSE Ok("Unsupported file format: " \o ext)

-----------------------------------------------------------------------------
(* main.py: call_claude_api *)

models_to_try ==
    << "claude-3-5-sonnet-20241022",
       "claude-3-5-sonnet-20240620",
       "claude-3-opus-20240229",
       "claude-3-sonnet-20240229",
       "claude-3-haiku-20240307" >>

HighTokens == 8192
FloorTokens == 4096

\* max_tokens_limit = 8192 if "3-5" in model_name else 4096
MaxTokensFor(model_name) ==
    IF Contains(model_name, "3-5") THEN HighTokens ELSE FloorTokens

(* What one client.messages.create(...) call followed by                   *)
(* response.content[0].text can do: give the text of the first content     *)
(* block, give a response with no content block, or raise.                 *)
NoExc == Exc("", "")
Content(text) == [kind |-> "content", text |-> text, exc |-> NoExc]
NoContent == [kind |-> "no_content", text |-> "", exc |-> NoExc]
Fails(e) == [kind |-> "error", text |-> "", exc |-> e]

NotFound == Exc("NotFoundError", "model not found")
TokenRejected == Exc("BadRequestError", "max_tokens is too large for this model")
BadPrompt == Exc("BadRequestError", "prompt is too long")
ConnectionFailed == Exc("APIConnectionError", "Connection error.")

ResponseTexts == {"", "# Structured"}

AllOutcomes ==
    {Content(t) : t \in ResponseTexts}
        \cup {NoContent}
        \cup {Fails(e) : e \in {NotFound, TokenRejected, BadPrompt, ConnectionFailed}}

\* the exception the try body of an attempt ends with, NoExc when it returns
RaisedBy(o) ==
    IF o.kind = "content" THEN NoExc
    ELSE IF o.kind = "no_content" THEN Exc("IndexError", "list index out of range")
    ELSE o.exc

\* an ExceptClause whose first handler catches every error but a bad request
ExceptClauseBroad(e) ==
    IF e.cls = "BadRequestError" THEN "BadRequestError" ELSE "NotFoundError"

\* the except clause of the first attempt that catches e
ExceptClause(e) ==
    IF e.cls = "NotFoundError" THEN "NotFoundError"
    ELSE IF e.cls = "BadRequestError" THEN "BadRequestError"
    ELSE "Exception"

\* a ShouldRetry that compares the ceiling with the high ceiling
ShouldRetryAboveHigh(e, limit) ==
    Contains(Str(e), "max_tokens") /\ limit > HighTokens

\* a ShouldRetry that does not look at the ceiling used
ShouldRetryAnyCeiling(e, limit) ==
    Contains(Str(e), "max_tokens")

\* if "max_tokens" in str(e) and max_tokens_limit > 4096
ShouldRetry(e, limit) ==
    Contains(Str(e), "max_tokens") /\ limit > FloorTokens

AbortMessage(model_name, e) ==
    "Error with model " \o model_name \o ": " \o Str(e)

ExhaustedMessage(err) ==
    "Error: No working Claude model found. Last error: "
        \o (IF err = None THEN "None" ELSE Str(err[1]))

\* an outer try with the ImportError handler alone
OuterHandlerImportOnly(e) ==
    IF e.cls = "ImportError"
    THEN [kind |-> "return", value |-> Some("Error: anthropic library not installed.")]
    ELSE [kind |-> "raise", value |-> Some(Str(e))]

\* the handlers of the outer try
OuterHandler(e) ==
    IF e.cls = "ImportError"
    THEN [kind |-> "return", value |-> Some("Error: anthropic library not installed.")]
    ELSE [kind |-> "return", value |-> Some("Error calling Claude API: " \o Str(e))]

Returned(v) == [kind |-> "return", value |-> v]
NotCalled == [kind |-> "none", value |-> None]

Attempt(model_name, limit, o) ==
    [model |-> model_name, max_tokens |-> limit, content |-> prompt, outcome |-> o]

\* return v
Return(v) ==
    /\ call_result' = Returned(v)
    /\ pc' = "call_return"

\* a Continue that moves two candidates on
ContinueSkipping(e) ==
    /\ last_error' = Some(e)
    /\ IF model_idx + 1 < Len(models_to_try)
       THEN /\ model_idx' = model_idx + 2
            /\ pc' = "attempt"
            /\ UNCHANGED call_result
       ELSE /\ Return(Some(ExhaustedMessage(Some(e))))
            /\ UNCHANGED model_idx

\* a Continue that does not record the error
ContinueStale(e) ==
    /\ UNCHANGED last_error
    /\ IF model_idx < Len(models_to_try)
       THEN /\ model_idx' = model_idx + 1
            /\ pc' = "attempt"
            /\ UNCHANGED call_result
       ELSE /\ Return(Some(ExhaustedMessage(last_error)))
            /\ UNCHANGED model_idx

\* last_error = e; continue (and the return after the loop when it is over)
Continue(e) ==
    /\ last_error' = Some(e)
    /\ IF model_idx < Len(models_to_try)
       THEN /\ model_idx' = model_idx + 1
            /\ pc' = "attempt"
            /\ UNCHANGED call_result
       ELSE /\ Return(Some(ExhaustedMessage(last_error')))
            /\ UNCHANGED model_idx

\* api_key = os.getenv(...); if not api_key: return None
CallEnter ==
    /\ pc = "call_enter"
    /\ attempts' = <<>>
    /\ IF Falsy(api_key)
       THEN Return(None)
       ELSE /\ pc' = "call_import"
            /\ UNCHANGED call_result
    /\ UNCHANGED <<model_idx, max_tokens_limit, last_error>>
    /\ UNCHANGED <<envVars, files, file_idx, file_path, extracted_text, prompt,
                   ai_response, results, upload_response, downloadVars,
                   extractVars, concVars>>

\* import anthropic; client = anthropic.Anthropic(...); last_error = None
ImportClient ==
    /\ pc = "call_import"
    /\ IF anthropic_lib = "installed"
       THEN /\ model_idx' = 1
            /\ last_error' = None
            /\ pc' = "attempt"
            /\ UNCHANGED call_result
       ELSE /\ call_result' =
                  OuterHandler(IF anthropic_lib = "missing"
                               THEN Exc("ImportError", "No module named 'anthropic'")
                               ELSE Exc("TypeError", "client could not be created"))
            /\ pc' = "call_return"
            /\ UNCHANGED <<model_idx, last_error>>
    /\ UNCHANGED <<max_tokens_limit, attempts>>
    /\ UNCHANGED <<envVars, files, file_idx, file_path, extracted_text, prompt,
                   ai_response, results, upload_response, downloadVars,
                   extractVars, concVars>>

\* the body of the for loop up to the retry: one request at the model's ceiling
FirstAttempt ==
    /\ pc = "attempt"
    /\ \E o \in api_outcomes :
         LET model_name == models_to_try[model_idx]
             limit == MaxTokensFor(model_name)
             e == RaisedBy(o)
         IN  /\ max_tokens_limit' = limit
             /\ attempts' = Append(attempts, Attempt(model_name, limit, o))
             /\ IF e = NoExc
                THEN /\ Return(Some(o.text))
                     /\ UNCHANGED <<model_idx, last_error>>
                ELSE IF ExceptClause(e) = "NotFoundError"
                THEN Continue(e)
                ELSE IF ExceptClause(e) = "BadRequestError"
                THEN IF ShouldRetry(e, limit)
                     THEN /\ pc' = "retry"
                          /\ UNCHANGED <<model_idx, last_error, call_result>>
                     ELSE Continue(e)
                ELSE /\ Return(Some(AbortMessage(model_name, e)))
                     /\ UNCHANGED <<model_idx, last_error>>
    /\ UNCHANGED <<envVars, files, file_idx, file_path, extracted_text, prompt,
                   ai_response, results, upload_response, downloadVars,
                   extractVars, concVars>>

\* a retry whose failure goes through the handlers of the first attempt
RetryAttemptAborting ==
    /\ pc = "retry"
    /\ \E o \in api_outcomes :
         LET model_name == models_to_try[model_idx]
             e == RaisedBy(o)
         IN  /\ attempts' = Append(attempts, Attempt(model_name, FloorTokens, o))
             /\ IF e = NoExc
                THEN /\ Return(Some(o.text))
                     /\ UNCHANGED <<model_idx, last_error>>
                ELSE IF ExceptClause(e) = "Exception"
                THEN /\ Return(Some(AbortMessage(model_name, e)))
                     /\ UNCHANGED <<model_idx, last_error>>
                ELSE Continue(e)
    /\ UNCHANGED max_tokens_limit
    /\ UNCHANGED <<envVars, files, file_idx, file_path, extracted_text, prompt,
                   ai_response, results, upload_response, downloadVars,
                   extractVars, concVars>>

\* the retry with max_tokens=4096 inside the BadRequestError handler
RetryAttempt ==
    /\ pc = "retry"
    /\ \E o \in api_outcomes :
         LET model_name == models_to_try[model_idx]
             e == RaisedBy(o)
         IN  /\ attempts' = Append(attempts, Attempt(model_name, FloorTokens, o))
             /\ IF e = NoExc
                THEN /\ Return(Some(o.text))
                     /\ UNCHANGED <<model_idx, last_error>>
                ELSE Continue(e)
    /\ UNCHANGED max_tokens_limit
    /\ UNCHANGED <<envVars, files, file_idx, file_path, extracted_text, prompt,
                   ai_response, results, upload_response, downloadVars,
                   extractVars, concVars>>

-----------------------------------------------------------------------------
(* main.py: upload_files *)

TEMP_DIR == "temp_uploads"
PreviewLen == 500

\* os.path.join(a, b)
PathJoin(a, b) ==
    IF Prefix(b, 1) = "/" THEN b
    ELSE IF a = "" \/ Suffix(a, Len(a)) = "/" THEN a \o b
    ELSE a \o "/" \o b

\* prompts.get_prompt_for_data: extracted text to instruction string
get_prompt_for_data(text) ==
    "Restructure the following document text.\n\n" \o text

\* a simulated response that counts the characters of the prompt
MockResponseOfPrompt(filename, text) ==
    "\n# Extracted Structure for " \o filename \o " (SIMULATION)\n\n"
      \o "(No valid ANTHROPIC_API_KEY found in backend/.env, so this is a simulated response.)\n\n"
      \o "## Summary\nThe document contains " \o ToString(Len(prompt)) \o " characters.\n\n"
      \o "## Mock Data Points\n- **Category 1**: Simulation Data A\n"
      \o "- **Category 2**: Simulation Data B\n"

\* the simulated response used when call_claude_api returned a falsy value
MockResponse(filename, text) ==
    "\n# Extracted Structure for " \o filename \o " (SIMULATION)\n\n"
      \o "(No valid ANTHROPIC_API_KEY found in backend/.env, so this is a simulated response.)\n\n"
      \o "## Summary\nThe document contains " \o ToString(Len(text)) \o " characters.\n\n"
      \o "## Mock Data Points\n- **Category 1**: Simulation Data A\n"
      \o "- **Category 2**: Simulation Data B\n"

\* if not ai_response: ai_response = <mock>
FinalResponse(returned, filename, text) ==
    IF Falsy(returned) THEN MockResponse(filename, text) ELSE returned[1]

ResultRecord(filename, text, prompt_, response) ==
    [filename |-> filename,
     extracted_text_preview |-> Prefix(text, PreviewLen) \o "...",
     generated_prompt |-> prompt_,
     ai_response |-> response]

\* a record put in front of the list
PrependResult(rs, r) == <<r>> \o rs

\* results.append({...})
AppendResult(rs, r) == Append(rs, r)

\* open(file_path, "wb") ; shutil.copyfileobj(file.file, buffer)
WriteFile(dir, path, doc) ==
    [p \in DOMAIN dir \cup {path} |-> IF p = path THEN doc ELSE dir[p]]

\* a removal that leaves the file where it is
KeepFile(dir, path) == dir

\* os.remove(file_path), its exceptions swallowed
RemoveFile(dir, path) ==
    [p \in DOMAIN dir \ {path} |-> dir[p]]

StoreFile ==
    /\ pc = "store"
    /\ LET file == files[file_idx]
           path == PathJoin(TEMP_DIR, file.filename)
       IN  /\ file_path' = path
           /\ temp_dir' = WriteFile(temp_dir, path, file.doc)
    /\ pc' = "extract"
    /\ UNCHANGED <<api_key, anthropic_lib, api_outcomes, files, file_idx,
                   extracted_text, prompt, ai_response, results, upload_response,
                   callVars, downloadVars,
                   extractVars, concVars>>

\* extracted_text = extract_text(file_path)
ExtractText ==
    /\ pc = "extract"
    /\ LET outcome == extract_text(temp_dir, file_path)
       IN  /\ extract_outcome' = outcome
           /\ extractor_calls' = ExtractorCalls(file_path)
           /\ IF outcome.ok
              THEN /\ extracted_text' = outcome.val
                   /\ pc' = "prompt"
                   /\ UNCHANGED upload_response
              ELSE \* an exception leaves the handler: the framework answers 500
                   /\ upload_response' = [status |-> 500, results |-> <<>>]
                   /\ pc' = "done"
                   /\ UNCHANGED extracted_text
    /\ UNCHANGED <<envVars, files, file_idx, file_path, prompt, ai_response,
                   results, callVars, downloadVars, concVars>>

BuildPrompt ==
    /\ pc = "prompt"
    /\ prompt' = get_prompt_for_data(extracted_text)
    /\ pc' = "remove"
    /\ UNCHANGED <<envVars, files, file_idx, file_path, extracted_text,
                   ai_response, results, upload_response, callVars, downloadVars,
                   extractVars, concVars>>

RemoveTemp ==
    /\ pc = "remove"
    /\ temp_dir' = RemoveFile(temp_dir, file_path)
    /\ pc' = "call_enter"
    /\ UNCHANGED <<api_key, anthropic_lib, api_outcomes, files, file_idx,
                   file_path, extracted_text, prompt, ai_response, results,
                   upload_response, callVars, downloadVars,
                   extractVars, concVars>>

\* ai_response = call_claude_api(prompt) returns; mock; results.append(...)
RecordResult ==
    /\ pc = "call_return"
    /\ IF call_result.kind = "return"
       THEN LET response == FinalResponse(call_result.value,
                                          files[file_idx].filename, extracted_text)
            IN  /\ ai_response' = response
                /\ results' = AppendResult(results,
                                           ResultRecord(files[file_idx].filename,
                                                        extracted_text, prompt,
                                                        response))
                /\ IF file_idx < Len(files)
                   THEN /\ file_idx' = file_idx + 1
                        /\ pc' = "store"
                   ELSE /\ pc' = "respond"
                        /\ UNCHANGED file_idx
                /\ UNCHANGED upload_response
       ELSE \* an exception leaves the handler: the framework answers 500
            /\ upload_response' = [status |-> 500, results |-> <<>>]
            /\ pc' = "done"
            /\ UNCHANGED <<ai_response, results, file_idx>>
    /\ UNCHANGED <<envVars, files, file_path, extracted_text, prompt,
                   callVars, downloadVars,
                   extractVars, concVars>>

\* return JSONResponse(content={"results": results})
Respond ==
    /\ pc = "respond"
    /\ upload_response' = [status |-> 200, results |-> results]
    /\ pc' = "done"
    /\ UNCHANGED <<envVars, files, file_idx, file_path, extracted_text, prompt,
                   ai_response, results, callVars, downloadVars,
                   extractVars, concVars>>

-----------------------------------------------------------------------------
(* main.py: download_result *)

PageHeight == 792
Margin == 40
LineHeight == 12
LineBudget == 90

\* content.split('\n')
RECURSIVE Split(_)
Split(s) ==
    LET breaks == {i \in 1..Len(s) : SubSeq(s, i, i) = "\n"}
    IN  IF breaks = {} THEN <<s>>
        ELSE LET i == CHOOSE b \in breaks : \A c \in breaks : b <= c
             IN  <<Prefix(s, i - 1)>> \o Split(Suffix(s, i + 1))

\* a Truncate that marks a line of exactly the budget too
TruncateAtBudget(line) ==
    Prefix(line, LineBudget) \o (IF Len(line) >= LineBudget THEN "..." ELSE "")

\* line[:90] + ("..." if len(line) > 90 else "")
Truncate(line) ==
    Prefix(line, LineBudget) \o (IF Len(line) > LineBudget THEN "..." ELSE "")

\* height - 40
TopOfPage == PageHeight - Margin

\* a page break taken one line early
NeedsPageBreakEarly(cursor) == cursor < Margin + LineHeight

\* a page break only once the cursor has left the page
NeedsPageBreakAtZero(cursor) == cursor < 0

\* if y < 40
NeedsPageBreak(cursor) == cursor < Margin

\* a FormatBranch that compares request.format as given
FormatBranchCaseSensitive(format) ==
    IF format = "md" THEN "md"
    ELSE IF format = "txt" THEN "txt"
    ELSE IF format = "pdf" THEN "pdf"
    ELSE "unsupported"

\* the branch of the if / elif chain taken for fmt = request.format.lower()
FormatBranch(format) ==
    LET fmt == Lower(format)
    IN  IF fmt = "md" THEN "md"
        ELSE IF fmt = "txt" THEN "txt"
        ELSE IF fmt = "pdf" THEN "pdf"
        ELSE "unsupported"

\* a Content-Disposition without the extension
DispositionNoExt(filename, ext) == "attachment; filename=" \o filename

\* headers={"Content-Disposition": f"attachment; filename={filename}.<ext>"}
Disposition(filename, ext) == "attachment; filename=" \o filename \o "." \o ext

TextResponse(content, media_type, filename, ext) ==
    [status |-> 200, kind |-> "text", text |-> content, pages |-> <<>>,
     media_type |-> media_type, disposition |-> Disposition(filename, ext),
     detail |-> ""]

PdfResponse(rendered, filename) ==
    [status |-> 200, kind |-> "pdf", text |-> "", pages |-> rendered,
     media_type |-> "application/pdf", disposition |-> Disposition(filename, "pdf"),
     detail |-> ""]

\* raise HTTPException(status_code=400, detail="Unsupported format")
ErrorResponse ==
    [status |-> 400, kind |-> "none", text |-> "", pages |-> <<>>,
     media_type |-> "", disposition |-> "", detail |-> "Unsupported format"]

\* c.showPage(): the page holding what was drawn is closed
ShowPage(closed, onPage) == Append(closed, onPage)

\* c.save(): closes the current page when something was drawn on it
Save(closed, onPage) == IF onPage = <<>> THEN closed ELSE ShowPage(closed, onPage)

\* the handler up to the PDF loop
DownloadStart ==
    /\ dpc = "start"
    /\ LET branch == FormatBranch(request.format)
       IN  IF branch = "md"
           THEN /\ download_response' =
                      TextResponse(request.content, "text/markdown", request.filename, "md")
                /\ dpc' = "done"
                /\ UNCHANGED <<lines, line_idx, y, text_object, drawn, pages>>
           ELSE IF branch = "txt"
           THEN /\ download_response' =
                      TextResponse(request.content, "text/plain", request.filename, "txt")
                /\ dpc' = "done"
                /\ UNCHANGED <<lines, line_idx, y, text_object, drawn, pages>>
           ELSE IF branch = "pdf"
           THEN /\ lines' = Split(request.content)
                /\ line_idx' = 1
                /\ y' = TopOfPage
                /\ text_object' = <<>>
                /\ drawn' = <<>>
                /\ pages' = <<>>
                /\ dpc' = "pdf_loop"
                /\ UNCHANGED download_response
           ELSE /\ download_response' = ErrorResponse
                /\ dpc' = "done"
                /\ UNCHANGED <<lines, line_idx, y, text_object, drawn, pages>>
    /\ UNCHANGED <<request, envVars, uploadVars, callVars, extractVars, concVars>>

\* one iteration of "for line in lines"
PdfLine ==
    /\ dpc = "pdf_loop"
    /\ line_idx <= Len(lines)
    /\ IF NeedsPageBreak(y)
       THEN \* drawText, showPage, beginText, y = height - 40, then the line
            /\ pages' = ShowPage(pages, Append(drawn, text_object))
            /\ drawn' = <<>>
            /\ text_object' = <<Truncate(lines[line_idx])>>
            /\ y' = TopOfPage - LineHeight
       ELSE /\ text_object' = Append(text_object, Truncate(lines[line_idx]))
            /\ y' = y - LineHeight
            /\ UNCHANGED <<pages, drawn>>
    /\ line_idx' = line_idx + 1
    /\ UNCHANGED <<request, dpc, lines, download_response>>
    /\ UNCHANGED <<envVars, uploadVars, callVars, extractVars, concVars>>

\* after the loop: drawText, save, the response
PdfFinish ==
    /\ dpc = "pdf_loop"
    /\ line_idx > Len(lines)
    /\ LET onPage == Append(drawn, text_object)
           rendered == Save(pages, onPage)
       IN  /\ drawn' = onPage
           /\ pages' = rendered
           /\ download_response' = PdfResponse(rendered, request.filename)
    /\ dpc' = "done"
    /\ UNCHANGED <<request, lines, line_idx, y, text_object>>
    /\ UNCHANGED <<envVars, uploadVars, callVars, extractVars, concVars>>

-----------------------------------------------------------------------------
(* Inputs *)

MaxFiles == 2

Upload(filename, doc) == [filename |-> filename, doc |-> doc]

Catalogue ==
    { Upload("report.pdf", Doc("pdf", <<Unit("A"), Unit("B"), Unit("C")>>)),
      Upload("Scan.PDF", Doc("junk", <<>>)),
      Upload("deck.pptx", Doc("pptx", <<Unit("Title"), NoTextUnit, Unit("Body")>>)),
      Upload("data.csv", Doc("junk", <<>>)) }

RECURSIVE SeqsUpTo(_, _)
SeqsUpTo(S, n) ==
    IF n = 0 THEN {<<>>}
    ELSE LET shorter == SeqsUpTo(S, n - 1)
         IN  shorter \cup {Append(q, x) : q \in shorter, x \in S}

(* The remote endpoint of a run. A request with one file runs against an    *)
(* endpoint that may answer each attempt in any way; a longer batch runs    *)
(* against an endpoint that answers every attempt the same way, one run for *)
(* each way, so that the histories of the files' calls do not multiply.     *)
EndpointsFor(batch) ==
    IF Len(batch) = 1 THEN {AllOutcomes} ELSE {{o} : o \in AllOutcomes}

NoResponse == [status |-> 0, results |-> <<>>]
NoRequest == [content |-> "", format |-> "", filename |-> ""]
NoDownload ==
    [status |-> 0, kind |-> "none", text |-> "", pages |-> <<>>,
     media_type |-> "", disposition |-> "", detail |-> ""]

CallIdle ==
    /\ model_idx = 0
    /\ max_tokens_limit = 0
    /\ last_error = None
    /\ attempts = <<>>
    /\ call_result = NotCalled

ExtractIdle ==
    /\ extractor_calls = <<>>
    /\ extract_outcome = Ok("")

NoRequests == reqs = <<>> /\ workers = 1

DownloadIdle ==
    /\ request = NoRequest
    /\ dpc = "idle"
    /\ lines = <<>>
    /\ line_idx = 0
    /\ y = 0
    /\ text_object = <<>>
    /\ drawn = <<>>
    /\ pages = <<>>
    /\ download_response = NoDownload

Init ==
    /\ api_key \in {None, Some(""), Some("sk-ant-test")}
    /\ anthropic_lib \in {"installed", "missing", "broken"}
    /\ files \in SeqsUpTo(Catalogue, MaxFiles) \ {<<>>}
    /\ api_outcomes \in EndpointsFor(files)
    /\ temp_dir = <<>>
    /\ pc = "store"
    /\ file_idx = 1
    /\ file_path = ""
    /\ extracted_text = ""
    /\ prompt = ""
    /\ ai_response = ""
    /\ results = <<>>
    /\ upload_response = NoResponse
    /\ CallIdle
    /\ DownloadIdle
    /\ ExtractIdle
    /\ NoRequests

Next ==
    \/ StoreFile
    \/ ExtractText
    \/ BuildPrompt
    \/ RemoveTemp
    \/ CallEnter
    \/ ImportClient
    \/ FirstAttempt
    \/ RetryAttempt
    \/ RecordResult
    \/ Respond

Spec == Init /\ [][Next]_vars

-----------------------------------------------------------------------------
(* Inputs of download_result *)

MaxLines == 125
MaxSampleLines == 2

\* c repeated n times
RECURSIVE Repeat(_, _)
Repeat(c, n) ==
    IF n <= 0 THEN ""
    ELSE LET half == Repeat(c, n \div 2)
         IN  IF n % 2 = 0 THEN half \o half ELSE half \o half \o c

\* "\n".join(ls[lo..hi])
RECURSIVE JoinRange(_, _, _)
JoinRange(ls, lo, hi) ==
    IF lo > hi THEN ""
    ELSE IF lo = hi THEN ls[lo]
    ELSE LET mid == (lo + hi) \div 2
         IN  JoinRange(ls, lo, mid) \o "\n" \o JoinRange(ls, mid + 1, hi)

JoinLines(ls) == JoinRange(ls, 1, Len(ls))

\* n numbered lines: "1\n2\n...\nn"
Numbered(n) == JoinLines([i \in 1..n |-> ToString(i)])

LineSamples ==
    {"", "ab"} \cup {Repeat("x", LineBudget + d) : d \in {-1, 0, 1, 5}}

Contents ==
    {Numbered(n) : n \in 1..MaxLines}
        \cup {JoinLines(ls) : ls \in SeqsUpTo(LineSamples, MaxSampleLines)}

Formats == {"md", "MD", "txt", "Txt", "pdf", "PDF", "docx", "html", ""}

Filenames == {"result", "f"}

UploadIdle ==
    /\ api_key = None
    /\ anthropic_lib = "installed"
    /\ api_outcomes = AllOutcomes
    /\ temp_dir = <<>>
    /\ files = <<>>
    /\ pc = "idle"
    /\ file_idx = 0
    /\ file_path = ""
    /\ extracted_text = ""
    /\ prompt = ""
    /\ ai_response = ""
    /\ results = <<>>
    /\ upload_response = NoResponse

InitDownload ==
    /\ UploadIdle
    /\ CallIdle
    /\ ExtractIdle
    /\ NoRequests
    /\ request \in [content : Contents, format : Formats, filename : Filenames]
    /\ dpc = "start"
    /\ lines = <<>>
    /\ line_idx = 0
    /\ y = 0
    /\ text_object = <<>>
    /\ drawn = <<>>
    /\ pages = <<>>
    /\ download_response = NoDownload

NextDownload ==
    \/ DownloadStart
    \/ PdfLine
    \/ PdfFinish

SpecDownload == InitDownload /\ [][NextDownload]_vars

-----------------------------------------------------------------------------
(* extract_text on its own: one stored (or missing) document, one call *)

MaxUnits == 3

ExtractNames ==
    {"a.pdf", "A.PDF", "b.Docx", "c.pptx", "C.PPTX", "d.txt", "e.CSV",
     "noext", ".pdf", "x.tar.gz", "y.pdf.bak", "z."}

UnitSamples(fmt) ==
    {Unit("A"), Unit("B"), Unit("C"), BadUnit("unit is damaged")}
        \cup (IF fmt = "pptx" THEN {NoTextUnit} ELSE {})

Documents ==
    {Doc("junk", <<>>)}
        \cup UNION {{Doc(fmt, us) : us \in SeqsUpTo(UnitSamples(fmt), MaxUnits)} :
                      fmt \in {"pdf", "docx", "pptx"}}

\* extract_text(file_path), called directly
ExtractCall ==
    /\ pc = "extract_call"
    /\ LET outcome == extract_text(temp_dir, file_path)
       IN  /\ extract_outcome' = outcome
           /\ extractor_calls' = ExtractorCalls(file_path)
           /\ extracted_text' = IF outcome.ok THEN outcome.val ELSE extracted_text
    /\ pc' = "extract_done"
    /\ UNCHANGED <<envVars, files, file_idx, file_path, prompt, ai_response,
                   results, upload_response, callVars, downloadVars, concVars>>

InitExtract ==
    /\ api_key = None
    /\ anthropic_lib = "installed"
    /\ api_outcomes = AllOutcomes
    /\ file_path \in {PathJoin(TEMP_DIR, name) : name \in ExtractNames}
    /\ temp_dir \in {<<>>} \cup {WriteFile(<<>>, file_path, d) : d \in Documents}
    /\ files = <<>>
    /\ pc = "extract_call"
    /\ file_idx = 0
    /\ extracted_text = ""
    /\ prompt = ""
    /\ ai_response = ""
    /\ results = <<>>
    /\ upload_response = NoResponse
    /\ CallIdle
    /\ DownloadIdle
    /\ ExtractIdle
    /\ NoRequests

NextExtract == ExtractCall

SpecExtract == InitExtract /\ [][NextExtract]_vars

-----------------------------------------------------------------------------
(* upload_files, several requests at once. Each request uploads one file    *)
(* and has its own locals; TEMP_DIR is one directory for all of them. The   *)
(* handler is a coroutine without an await: in one server process the       *)
(* event loop runs a handler call to its end before it starts another, and  *)
(* handler calls in different server processes run side by side.            *)

MaxRequests == 2

ConcurrentCatalogue ==
    { Upload("report.pdf", Doc("pdf", <<Unit("A"), Unit("B"), Unit("C")>>)),
      Upload("report.pdf", Doc("pdf", <<Unit("X")>>)),
      Upload("notes.pdf", Doc("pdf", <<Unit("N")>>)),
      Upload("deck.pptx", Doc("pptx", <<Unit("Title"), NoTextUnit, Unit("Body")>>)) }

NewRequest(file) ==
    [file |-> file, rpc |-> "store", file_path |-> "", extracted_text |-> "",
     prompt |-> "", results |-> <<>>, status |-> 0]

InHandler(r) == reqs[r].rpc \notin {"store", "done"}

\* the handler call of request r may take its next step
Runnable(r) ==
    \/ workers > 1
    \/ \A q \in DOMAIN reqs : q # r => ~InHandler(q)

ReqStore(r) ==
    /\ reqs[r].rpc = "store"
    /\ Runnable(r)
    /\ LET path == PathJoin(TEMP_DIR, reqs[r].file.filename)
       IN  /\ temp_dir' = WriteFile(temp_dir, path, reqs[r].file.doc)
           /\ reqs' = [reqs EXCEPT ![r].file_path = path, ![r].rpc = "extract"]
    /\ UNCHANGED <<api_key, anthropic_lib, api_outcomes, workers, uploadVars,
                   callVars, downloadVars, extractVars>>

ReqExtract(r) ==
    /\ reqs[r].rpc = "extract"
    /\ Runnable(r)
    /\ LET outcome == extract_text(temp_dir, reqs[r].file_path)
       IN  reqs' = IF outcome.ok
                   THEN [reqs EXCEPT ![r].extracted_text = outcome.val,
                                     ![r].rpc = "prompt"]
                   ELSE [reqs EXCEPT ![r].status = 500, ![r].rpc = "done"]
    /\ UNCHANGED <<envVars, workers, uploadVars, callVars, downloadVars, extractVars>>

ReqPrompt(r) ==
    /\ reqs[r].rpc = "prompt"
    /\ Runnable(r)
    /\ reqs' = [reqs EXCEPT ![r].prompt = get_prompt_for_data(reqs[r].extracted_text),
                            ![r].rpc = "remove"]
    /\ UNCHANGED <<envVars, workers, uploadVars, callVars, downloadVars, extractVars>>

ReqRemove(r) ==
    /\ reqs[r].rpc = "remove"
    /\ Runnable(r)
    /\ temp_dir' = RemoveFile(temp_dir, reqs[r].file_path)
    /\ reqs' = [reqs EXCEPT ![r].rpc = "call"]
    /\ UNCHANGED <<api_key, anthropic_lib, api_outcomes, workers, uploadVars,
                   callVars, downloadVars, extractVars>>

\* call_claude_api without a credential returns None; the record; the response
ReqCall(r) ==
    /\ reqs[r].rpc = "call"
    /\ Runnable(r)
    /\ Falsy(api_key)
    /\ LET response == FinalResponse(None, reqs[r].file.filename,
                                     reqs[r].extracted_text)
           record == ResultRecord(reqs[r].file.filename, reqs[r].extracted_text,
                                  reqs[r].prompt, response)
       IN  reqs' = [reqs EXCEPT ![r].results = AppendResult(reqs[r].results, record),
                                ![r].status = 200,
                                ![r].rpc = "done"]
    /\ UNCHANGED <<envVars, workers, uploadVars, callVars, downloadVars, extractVars>>

InitConcurrent ==
    /\ UploadIdle
    /\ CallIdle
    /\ DownloadIdle
    /\ ExtractIdle
    /\ workers \in {1, 2}
    /\ reqs \in [1..MaxRequests -> {NewRequest(f) : f \in ConcurrentCatalogue}]

NextConcurrent ==
    \E r \in DOMAIN reqs :
        \/ ReqStore(r)
        \/ ReqExtract(r)
        \/ ReqPrompt(r)
        \/ ReqRemove(r)
        \/ ReqCall(r)

SpecConcurrent == InitConcurrent /\ [][NextConcurrent]_vars

-----------------------------------------------------------------------------
(* Properties of call_claude_api *)

CredentialConfigured == ~Falsy(api_key)

\* the request at position i of the call's history is the first to its candidate
IsFirstAttempt(i) == i = 1 \/ attempts[i - 1].model # attempts[i].model

FailedWith(a, cls) == a.outcome.kind = "error" /\ a.outcome.exc.cls = cls

TokenCeilingRejected(a) ==
    /\ FailedWith(a, "BadRequestError")
    /\ Contains(a.outcome.exc.msg, "max_tokens")

\* the attempt ended in an exception that is neither not-found nor bad-request
OtherFailure(a) ==
    /\ a.outcome.kind # "content"
    /\ ~FailedWith(a, "NotFoundError")
    /\ ~FailedWith(a, "BadRequestError")

\* the history is k-1 not-found failures followed by content at request k
NotFoundThenContent(k) ==
    /\ k \in 1..Len(attempts)
    /\ \A i \in 1..(k - 1) : FailedWith(attempts[i], "NotFoundError")
    /\ attempts[k].outcome.kind = "content"

(* C1: with a credential configured, when the first k-1 candidates answer   *)
(* not-found and candidate k returns content, the call returns candidate    *)
(* k's text after exactly k requests, the i-th to the i-th candidate of     *)
(* models_to_try, and nothing is requested after the k-th.                  *)
C1_FallbackInOrder ==
    \A k \in 1..Len(attempts) :
        (CredentialConfigured /\ NotFoundThenContent(k)) =>
            /\ k <= Len(models_to_try)
            /\ Len(attempts) = k
            /\ \A i \in 1..k : attempts[i].model = models_to_try[i]
            /\ call_result = Returned(Some(attempts[k].outcome.text))

C1_Witness ==
    /\ CredentialConfigured
    /\ Len(models_to_try) = 5
    /\ NotFoundThenContent(Len(models_to_try))
    /\ call_result = Returned(Some("# Structured"))

\* the request after position i, if the call got that far, retries the same
\* candidate at the floor ceiling, and it is the only one
RetriedOnceAtFloor(i) ==
    /\ i = Len(attempts) => pc = "retry"
    /\ i < Len(attempts) =>
          /\ attempts[i + 1].model = attempts[i].model
          /\ attempts[i + 1].max_tokens = FloorTokens
    /\ i + 2 <= Len(attempts) => attempts[i + 2].model # attempts[i].model

(* C2 as stated: every candidate whose first attempt is rejected for its    *)
(* token ceiling gets exactly one more request, at 4096, before the next    *)
(* candidate is tried.                                                      *)
C2_RetryForAnyCandidate ==
    \A i \in 1..Len(attempts) :
        (IsFirstAttempt(i) /\ TokenCeilingRejected(attempts[i])) =>
            RetriedOnceAtFloor(i)

(* C2: a candidate whose first attempt used a ceiling above 4096 and was    *)
(* rejected for its token ceiling gets exactly one more request, at 4096,   *)
(* before the next candidate is tried; a candidate first tried at 4096 is   *)
(* not retried.                                                             *)
C2_RetryAboveFloor ==
    \A i \in 1..Len(attempts) :
        (IsFirstAttempt(i) /\ TokenCeilingRejected(attempts[i])) =>
            IF attempts[i].max_tokens > FloorTokens
            THEN RetriedOnceAtFloor(i)
            ELSE /\ i = Len(attempts) => pc # "retry"
                 /\ i < Len(attempts) => attempts[i + 1].model # attempts[i].model

C2_Witness ==
    /\ Len(attempts) >= 3
    /\ IsFirstAttempt(1)
    /\ TokenCeilingRejected(attempts[1])
    /\ attempts[1].max_tokens = HighTokens
    /\ attempts[2].model = attempts[1].model
    /\ attempts[2].max_tokens = FloorTokens
    /\ attempts[3].model = models_to_try[2]

\* the chain ended at request i with the message naming its candidate
AbortedAt(i) ==
    /\ i = Len(attempts)
    /\ pc \notin {"attempt", "retry"}
    /\ call_result =
          Returned(Some("Error with model " \o attempts[i].model \o ": "
                          \o RaisedBy(attempts[i].outcome).msg))

(* C3 as stated: any request that fails with an exception other than        *)
(* not-found and bad-request ends the chain with "Error with model <id>:    *)
(* <message>" and is the last request.                                      *)
C3_AnyRequestAborts ==
    \A i \in 1..Len(attempts) : OtherFailure(attempts[i]) => AbortedAt(i)

(* C3: a candidate's first request that fails with an exception other than  *)
(* not-found and bad-request ends the chain with "Error with model <id>:    *)
(* <message>" naming that candidate, and is the last request of the call.   *)
C3_FirstRequestAborts ==
    \A i \in 1..Len(attempts) :
        (IsFirstAttempt(i) /\ OtherFailure(attempts[i])) => AbortedAt(i)

C3_Witness ==
    /\ Len(attempts) = 3
    /\ IsFirstAttempt(3)
    /\ FailedWith(attempts[3], "APIConnectionError")
    /\ call_result =
          Returned(Some("Error with model claude-3-opus-20240229: Connection error."))

\* the call is over and every candidate was tried without success
AllCandidatesFailed ==
    /\ attempts # <<>>
    /\ pc \notin {"attempt", "retry"}
    /\ \A i \in 1..Len(attempts) : attempts[i].outcome.kind # "content"
    /\ attempts[Len(attempts)].model = models_to_try[Len(models_to_try)]
    /\ ~(IsFirstAttempt(Len(attempts)) /\ OtherFailure(attempts[Len(attempts)]))

LastFailure == RaisedBy(attempts[Len(attempts)].outcome)

C4_CarriedBetweenAttempts ==
    (pc \in {"attempt", "retry"} /\ pc' \in {"attempt", "retry"}) =>
        UNCHANGED <<envVars, files, file_idx, file_path, extracted_text, prompt,
                    ai_response, results, upload_response, call_result,
                    downloadVars,
                   extractVars, concVars>>

C4_ExhaustedState ==
    AllCandidatesFailed =>
        /\ last_error = Some(LastFailure)
        /\ call_result =
              Returned(Some("Error: No working Claude model found. Last error: "
                              \o LastFailure.msg))

-----------------------------------------------------------------------------
(* Properties of upload_files with call_claude_api *)

\* a record was appended and the call it came from is still the last one made
AfterRecord ==
    /\ results # <<>>
    /\ pc \in {"store", "extract", "prompt", "remove", "call_enter", "respond", "done"}

LastRecord == results[Len(results)]

\* the last call had a credential and ended without content from any candidate
CallFailed ==
    /\ CredentialConfigured
    /\ call_result.kind = "return"
    /\ attempts = <<>> \/ attempts[Len(attempts)].outcome.kind # "content"

(* C5: call_claude_api never raises: whatever the import, the client and    *)
(* each attempt do, it returns None or a string; the upload handler ends    *)
(* with status 200 and one record per file, and the record of a file whose  *)
(* AI call failed carries the "Error..." string the call returned.          *)
C5_AlwaysAString ==
    /\ call_result.kind \in {"none", "return"}
    /\ Len(call_result.value) <= 1
    /\ upload_response.status \in {0, 200}
    /\ pc = "done" =>
          /\ upload_response.status = 200
          /\ Len(upload_response.results) = Len(files)
    /\ (AfterRecord /\ CallFailed) =>
          /\ call_result.value # None
          /\ LastRecord.ai_response = call_result.value[1]
          /\ Prefix(LastRecord.ai_response, 5) = "Error"

C5_Witness ==
    /\ pc = "done"
    /\ upload_response.status = 200
    /\ Len(files) = 2
    /\ anthropic_lib = "broken"
    /\ CallFailed
    /\ \A i \in 1..Len(files) :
          upload_response.results[i].ai_response
              = "Error calling Claude API: client could not be created"

\* the text extracted for the last record is still in extracted_text
LastTextKept ==
    /\ results # <<>>
    /\ pc \in {"store", "extract", "respond", "done"}

(* C6: with no credential configured call_claude_api returns None and no    *)
(* request is issued to any candidate; the record of the file then holds    *)
(* the simulated response, which states the character count of the          *)
(* extracted text.                                                          *)
C6_NoCredentialSimulates ==
    Falsy(api_key) =>
        /\ attempts = <<>>
        /\ pc \notin {"call_import", "attempt", "retry"}
        /\ call_result \in {NotCalled, Returned(None)}
        /\ \A i \in 1..Len(results) :
              Contains(results[i].ai_response, "(SIMULATION)")
        /\ LastTextKept =>
              Contains(LastRecord.ai_response,
                       "The document contains " \o ToString(Len(extracted_text))
                           \o " characters.")

C6_Witness ==
    /\ api_key = None
    /\ pc = "done"
    /\ call_result = Returned(None)
    /\ Len(results) = 2
    /\ extracted_text = "A\nB\nC\n"
    /\ Contains(LastRecord.ai_response, "The document contains 6 characters.")

-----------------------------------------------------------------------------
(* Properties of download_result *)

Downloaded == dpc = "done"

(* C7: with format "md" the payload is the content unchanged, the media     *)
(* type is text/markdown and the disposition names <filename>.md; with      *)
(* format "txt" the payload is the same unchanged content, the media type   *)
(* is text/plain and the disposition names <filename>.txt.                  *)
C7_TextPassThrough ==
    (Downloaded /\ request.format \in {"md", "txt"}) =>
        /\ download_response.status = 200
        /\ download_response.kind = "text"
        /\ download_response.text = request.content
        /\ download_response.media_type =
              (IF request.format = "md" THEN "text/markdown" ELSE "text/plain")
        /\ download_response.disposition =
              "attachment; filename=" \o request.filename \o "." \o request.format

C7_Witness ==
    /\ Downloaded
    /\ request.format = "md"
    /\ request.filename = "f"
    /\ Len(request.content) > LineBudget
    /\ download_response.text = request.content
    /\ download_response.disposition = "attachment; filename=f.md"

AcceptedFormats == {"md", "txt", "pdf"}

(* C8: a request whose format, letter case aside, is md, txt or pdf ends    *)
(* with status 200 and a payload; any other format ends with status 400     *)
(* and no payload.                                                          *)
C8_ThreeFormats ==
    Downloaded =>
        IF Lower(request.format) \in AcceptedFormats
        THEN /\ download_response.status = 200
             /\ download_response.kind \in {"text", "pdf"}
             /\ download_response.kind = "pdf" => download_response.pages # <<>>
        ELSE /\ download_response.status = 400
             /\ download_response.kind = "none"
             /\ download_response.text = ""
             /\ download_response.pages = <<>>
             /\ pages = <<>>

C8_Witness ==
    /\ Downloaded
    /\ request.format = "docx"
    /\ request.content # ""
    /\ download_response.status = 400
    /\ download_response.detail = "Unsupported format"

\* the lines of a rendering, page after page
RECURSIVE LinesOfPage(_)
LinesOfPage(page) ==
    IF page = <<>> THEN <<>> ELSE Head(page) \o LinesOfPage(Tail(page))

RECURSIVE AllLines(_, _)
AllLines(rendered, upto) ==
    IF upto = 0 THEN <<>>
    ELSE AllLines(rendered, upto - 1) \o LinesOfPage(rendered[upto])

\* lines that fit between the top of the page and the bottom margin
LinesPerPage == (TopOfPage - Margin) \div LineHeight + 1

NewlineCount(text) == Cardinality({i \in 1..Len(text) : SubSeq(text, i, i) = "\n"})

CeilDiv(a, b) == (a + b - 1) \div b

PdfDone == Downloaded /\ download_response.kind = "pdf"

(* C9: a PDF export of content with L newline-separated lines has           *)
(* max(1, ceil(L / P)) pages, P being the lines that fit on a page (60);    *)
(* more than P lines give more than one page; every page but the last       *)
(* holds P lines and the pages together hold L lines.                       *)
C9_PageCount ==
    PdfDone =>
        LET L == NewlineCount(request.content) + 1
            P == LinesPerPage
            rendered == download_response.pages
            n == Len(rendered)
            wanted == IF CeilDiv(L, P) > 1 THEN CeilDiv(L, P) ELSE 1
        IN  /\ TopOfPage - (P - 1) * LineHeight >= Margin
            /\ TopOfPage - P * LineHeight < Margin
            /\ n = wanted
            /\ L > P => n > 1
            /\ \A k \in 1..(n - 1) : Len(LinesOfPage(rendered[k])) = P
            /\ Len(AllLines(rendered, n)) = L

C9_Witness ==
    /\ PdfDone
    /\ NewlineCount(request.content) + 1 = 2 * LinesPerPage + 1
    /\ Len(download_response.pages) = 3
    /\ LinesOfPage(download_response.pages[3]) = <<ToString(2 * LinesPerPage + 1)>>

(* C10: the PDF export emits one line per input line, in input order: an    *)
(* input line of at most 90 characters as it is, a longer one as its first  *)
(* 90 characters followed by "...".                                         *)
C10_LineTruncation ==
    PdfDone =>
        LET emitted == AllLines(download_response.pages, Len(download_response.pages))
        IN  /\ Len(emitted) = Len(lines)
            /\ \A i \in 1..Len(lines) :
                  IF Len(lines[i]) <= LineBudget
                  THEN emitted[i] = lines[i]
                  ELSE emitted[i] = SubSeq(lines[i], 1, LineBudget) \o "..."

C10_Witness ==
    /\ PdfDone
    /\ Len(lines) = 2
    /\ Len(lines[1]) = LineBudget
    /\ Len(lines[2]) = LineBudget + 1
    /\ LinesOfPage(download_response.pages[1])
          = <<lines[1], SubSeq(lines[2], 1, LineBudget) \o "...">>

-----------------------------------------------------------------------------
(* The cursor of the PDF pagination loop *)

\* this step is an iteration of the loop over the lines
EmitsLine == dpc = "pdf_loop" /\ line_idx' = line_idx + 1

C19_CursorOnPage ==
    dpc = "pdf_loop" => y <= 792 - 40 /\ y >= 40 - 12

C19_CursorStep ==
    /\ dpc = "start" /\ dpc' = "pdf_loop" => y' = 792 - 40
    /\ EmitsLine =>
          LET at == IF y < 40 THEN 792 - 40 ELSE y
          IN  /\ 40 <= at /\ at <= 792 - 40
              /\ y' = at - 12
              /\ IF y < 40
                 THEN /\ Len(pages') = Len(pages) + 1
                      /\ pages'[Len(pages')] = <<text_object>>
                      /\ text_object' = <<Truncate(lines[line_idx])>>
                 ELSE /\ pages' = pages
                      /\ text_object' = Append(text_object, Truncate(lines[line_idx]))
    /\ ~EmitsLine /\ dpc = "pdf_loop" => y' = y

(* C19: in the PDF pagination loop the cursor is between 40 and page height *)
(* - 40 at every line emission: it starts at page height - 40, goes down by *)
(* exactly 12 per emitted line, and when it is below 40 before an emission  *)
(* the page is finalized and the cursor reset to page height - 40 before    *)
(* the line is emitted on the new page.                                     *)
C19_CursorWithinMargins ==
    []C19_CursorOnPage /\ [][C19_CursorStep]_vars

C19_Witness ==
    /\ dpc = "pdf_loop"
    /\ Len(lines) = 125
    /\ line_idx = 62
    /\ Len(pages) = 1
    /\ Len(pages[1][1]) = 60
    /\ text_object = <<"61">>
    /\ y = 792 - 40 - 12

-----------------------------------------------------------------------------
(* Properties of upload_files and of the retry in call_claude_api *)

UploadDone == pc = "done"

\* what extract_text gives for the bytes of an upload stored on their own
TextOf(file) ==
    LET path == PathJoin(TEMP_DIR, file.filename)
    IN  extract_text(WriteFile(<<>>, path, file.doc), path).val

\* the record at position i is the record of the file at position i
RecordIsFor(rs, i) ==
    /\ rs[i].filename = files[i].filename
    /\ rs[i].extracted_text_preview = Prefix(TextOf(files[i]), 500) \o "..."
    /\ rs[i].generated_prompt = get_prompt_for_data(TextOf(files[i]))

C14_RecordsInOrder ==
    /\ \A i \in 1..Len(results) : RecordIsFor(results, i)
    /\ pc \in {"store", "extract", "prompt", "remove", "call_enter", "call_import",
               "attempt", "retry", "call_return"}
          => Len(results) = file_idx - 1
    /\ UploadDone =>
          /\ upload_response.status = 200
          /\ upload_response.results = results
          /\ Len(results) = Len(files)

C14_OneFileAtATime ==
    file_idx' # file_idx =>
        /\ pc = "call_return"
        /\ call_result.kind = "return"
        /\ file_idx' = file_idx + 1
        /\ Len(results') = file_idx
        /\ pc' = "store"

(* C14: for an upload of files f1..fn the response holds exactly n records, *)
(* the i-th for fi, also when the extraction or the AI call of a file       *)
(* failed; the files are processed one at a time: the handler moves to file *)
(* i+1 only from the return of the AI call for file i, with the record of   *)
(* file i appended.                                                         *)
C14_OneRecordPerFileInOrder ==
    []C14_RecordsInOrder /\ [][C14_OneFileAtATime]_vars

C14_Witness ==
    /\ UploadDone
    /\ CredentialConfigured
    /\ Len(files) = 2
    /\ files[1].filename = "Scan.PDF"
    /\ files[2].filename = "report.pdf"
    /\ Len(upload_response.results) = 2
    /\ upload_response.results[1].extracted_text_preview
          = "Error extracting PDF: not a valid pdf file..."
    /\ upload_response.results[2].filename = "report.pdf"
    /\ upload_response.results[2].ai_response
          = AbortMessage(models_to_try[1], ConnectionFailed)

CallStages == {"call_enter", "call_import", "attempt", "retry", "call_return"}

C16_StoredCopy ==
    /\ pc = "extract" =>
          /\ file_path \in DOMAIN temp_dir
          /\ temp_dir[file_path] = files[file_idx].doc
    /\ pc \in CallStages => file_path \notin DOMAIN temp_dir
    /\ pc \in {"attempt", "retry", "call_return"} =>
          \A i \in 1..Len(attempts) :
              attempts[i].content = get_prompt_for_data(extracted_text)
    /\ UploadDone => temp_dir = <<>>

C16_StageOrder ==
    /\ pc = "store" => pc' = "extract"
    /\ pc = "extract" => pc' = "prompt" /\ extracted_text' = TextOf(files[file_idx])
    /\ pc = "prompt" => pc' = "remove" /\ prompt' = get_prompt_for_data(extracted_text)
    /\ pc = "remove" => pc' = "call_enter" /\ file_path \notin DOMAIN temp_dir'
    /\ pc' = "call_enter" => pc = "remove"
    /\ pc' = "store" => pc = "call_return"
    /\ pc \in CallStages => pc' \in CallStages \cup {"store", "respond"}

RequestsTo(model_name) ==
    Cardinality({i \in 1..Len(attempts) : attempts[i].model = model_name})

\* no second request follows request i, which was the first to its candidate
NoSecondRequest(i) ==
    /\ i < Len(attempts) => attempts[i + 1].model # attempts[i].model
    /\ i = Len(attempts) => pc # "retry"

(* C17: each candidate receives at most two requests, at most 2N in all; a  *)
(* second request is made only after a first request above 4096 that failed *)
(* with a bad request naming the token ceiling, and it uses 4096; not-found,*)
(* any other bad request, and a token-ceiling rejection of a request        *)
(* already at 4096 are followed by no second request.                       *)
C17_AtMostTwoRequestsPerCandidate ==
    /\ \A k \in 1..Len(models_to_try) : RequestsTo(models_to_try[k]) <= 2
    /\ Len(attempts) <= 2 * Len(models_to_try)
    /\ \A i \in 1..Len(attempts) :
          /\ ~IsFirstAttempt(i) =>
                /\ IsFirstAttempt(i - 1)
                /\ attempts[i - 1].max_tokens > 4096
                /\ TokenCeilingRejected(attempts[i - 1])
                /\ attempts[i].max_tokens = 4096
          /\ /\ IsFirstAttempt(i)
             /\ \/ FailedWith(attempts[i], "NotFoundError")
                \/ FailedWith(attempts[i], "BadRequestError")
                      /\ ~TokenCeilingRejected(attempts[i])
                \/ TokenCeilingRejected(attempts[i]) /\ attempts[i].max_tokens = 4096
             => NoSecondRequest(i)

C17_Witness ==
    /\ pc = "call_return"
    /\ Len(attempts) = 7
    /\ RequestsTo(models_to_try[1]) = 2
    /\ RequestsTo(models_to_try[2]) = 2
    /\ \A i \in 1..7 : TokenCeilingRejected(attempts[i])
    /\ attempts[2].max_tokens = 4096
    /\ attempts[5].max_tokens = 4096
    /\ attempts[5].model = models_to_try[3]

\* request i is a retry and it failed
FailedRetry(i) == ~IsFirstAttempt(i) /\ attempts[i].outcome.kind # "content"

CandidateIndex(model_name) ==
    CHOOSE k \in 1..Len(models_to_try) : models_to_try[k] = model_name

(* C18: when the retry of a candidate at the floor ceiling fails, whatever  *)
(* the class of the failure, the failure is recorded as the last error and  *)
(* the next candidate is tried; the chain is not aborted.                   *)
C18_FailedRetryContinues ==
    \A i \in 1..Len(attempts) :
        FailedRetry(i) =>
            LET k == CandidateIndex(attempts[i].model)
                e == RaisedBy(attempts[i].outcome)
            IN  IF k = Len(models_to_try)
                THEN /\ i = Len(attempts)
                     /\ call_result = Returned(Some(ExhaustedMessage(Some(e))))
                ELSE IF i = Len(attempts)
                THEN /\ pc = "attempt"
                     /\ model_idx = k + 1
                     /\ last_error = Some(e)
                ELSE attempts[i + 1].model = models_to_try[k + 1]

C18_Witness ==
    /\ Len(attempts) = 3
    /\ attempts[2].model = models_to_try[1]
    /\ attempts[2].max_tokens = 4096
    /\ FailedWith(attempts[2], "APIConnectionError")
    /\ attempts[3].model = models_to_try[2]
    /\ pc = "call_return"

\* the last call had a credential and ended with content from a candidate
ContentReturned ==
    /\ CredentialConfigured
    /\ attempts # <<>>
    /\ attempts[Len(attempts)].outcome.kind = "content"

(* C20: the simulated response is put in a record only when no credential   *)
(* is configured: with a credential and content returned by a candidate,    *)
(* the record's ai_response is the returned text, whatever the text, the    *)
(* empty string included.                                                   *)
C20_SimulatedOnlyWithoutCredential ==
    AfterRecord /\ ContentReturned =>
        LastRecord.ai_response = attempts[Len(attempts)].outcome.text

C20_EmptyAnswerSimulated ==
    /\ AfterRecord
    /\ ContentReturned
    /\ api_key = Some("sk-ant-test")
    /\ attempts = <<Attempt(models_to_try[1], 8192, Content(""))>>
    /\ LastRecord.ai_response = MockResponse(LastRecord.filename, extracted_text)

-----------------------------------------------------------------------------
(* Requests in progress at the same time *)

HasExtracted(r) == reqs[r].rpc \in {"prompt", "remove", "call"} \/ reqs[r].status = 200

(* C15: two upload requests running concurrently share no mutable state:    *)
(* for every interleaving, two requests with the same filename included,    *)
(* the text each request extracts is the text of its own uploaded bytes.    *)
C15_RequestsIsolated ==
    \A r \in DOMAIN reqs :
        HasExtracted(r) => reqs[r].extracted_text = TextOf(reqs[r].file)

C15_ExtractsOtherUpload ==
    /\ workers = 2
    /\ reqs[1].file = Upload("report.pdf", Doc("pdf", <<Unit("A"), Unit("B"), Unit("C")>>))
    /\ reqs[2].file = Upload("report.pdf", Doc("pdf", <<Unit("X")>>))
    /\ reqs[1].rpc = "done"
    /\ reqs[2].rpc = "done"
    /\ reqs[1].results[1].filename = "report.pdf"
    /\ reqs[1].results[1].extracted_text_preview = "X\n..."
    /\ reqs[2].results[1].extracted_text_preview = "X\n..."

\* with one server process, or with different filenames, each request
\* extracts its own upload
C15_SerialOrDistinctNames ==
    (\/ workers = 1
     \/ \A r, q \in DOMAIN reqs : r # q => reqs[r].file.filename # reqs[q].file.filename)
        => C15_RequestsIsolated

-----------------------------------------------------------------------------
(* Properties of extract_text *)

Extracted == pc = "extract_done"

SupportedExtensions == {".pdf", ".docx", ".pptx"}

(* C11: extract_text dispatches on the lowercased extension: an extension   *)
(* that is not .pdf, .docx or .pptx in any letter case gives exactly        *)
(* "Unsupported file format: <ext>", <ext> lowercased, and no format        *)
(* extractor is called; one of the three in any letter case calls the       *)
(* extractor of that format, whose result is the result.                    *)
C11_DispatchOnLowercasedExtension ==
    Extracted =>
        LET ext == Lower(SplitExt(file_path)[2])
        IN  IF ext \in SupportedExtensions
            THEN /\ extractor_calls = <<SubSeq(ext, 2, Len(ext))>>
                 /\ extract_outcome =
                       (IF ext = ".pdf" THEN extract_text_from_pdf(temp_dir, file_path)
                        ELSE IF ext = ".docx"
                        THEN extract_text_from_docx(temp_dir, file_path)
                        ELSE extract_text_from_pptx(temp_dir, file_path))
            ELSE /\ extractor_calls = <<>>
                 /\ extract_outcome = Ok("Unsupported file format: " \o ext)

C11_Witness ==
    /\ Extracted
    /\ file_path = "temp_uploads/e.CSV"
    /\ file_path \in DOMAIN temp_dir
    /\ temp_dir[file_path].fmt = "pdf"
    /\ extractor_calls = <<>>
    /\ extract_outcome = Ok("Unsupported file format: .csv")

\* the parser of the format dispatched to raises on the stored document:
\* at opening, or at a page, paragraph or shape
ParserRaises ==
    /\ extractor_calls # <<>>
    /\ \/ file_path \notin DOMAIN temp_dir
       \/ temp_dir[file_path].fmt # extractor_calls[1]
       \/ \E i \in 1..Len(temp_dir[file_path].units) :
             temp_dir[file_path].units[i].err # ""

FormatLabel(which) ==
    IF which = "pdf" THEN "PDF" ELSE IF which = "docx" THEN "DOCX" ELSE "PPTX"

(* C12: for a supported extension, whatever the parser does, extract_text   *)
(* returns a string and does not raise; when the parser raised, at opening  *)
(* or at any page, paragraph or shape, the string begins with               *)
(* "Error extracting <FORMAT>: " for the format dispatched to.              *)
C12_ExtractNeverRaises ==
    Extracted =>
        /\ extract_outcome.ok
        /\ extract_outcome.exc = Exc("", "")
        /\ extracted_text = extract_outcome.val
        /\ ParserRaises =>
              LET head == "Error extracting " \o FormatLabel(extractor_calls[1]) \o ": "
              IN  Prefix(extract_outcome.val, Len(head)) = head

C12_Witness ==
    /\ Extracted
    /\ file_path = "temp_uploads/C.PPTX"
    /\ file_path \in DOMAIN temp_dir
    /\ temp_dir[file_path].fmt = "pptx"
    /\ Len(temp_dir[file_path].units) = 3
    /\ temp_dir[file_path].units[3].err # ""
    /\ temp_dir[file_path].units[1].err = ""
    /\ extract_outcome = Ok("Error extracting PPTX: unit is damaged")

\* a readable PDF was extracted by the PDF extractor
PdfRead ==
    /\ Extracted
    /\ extractor_calls = <<"pdf">>
    /\ file_path \in DOMAIN temp_dir
    /\ temp_dir[file_path].fmt = "pdf"
    /\ \A i \in 1..Len(temp_dir[file_path].units) : temp_dir[file_path].units[i].err = ""

(* C13: for a PDF with pages t1..tn the PDF extractor returns t1, newline,  *)
(* t2, newline, ..., tn, newline, in document order; for n = 0 it returns   *)
(* the empty string.                                                        *)
C13_PdfPagesEachEndWithNewline ==
    PdfRead =>
        LET units == temp_dir[file_path].units
            texts == [i \in 1..Len(units) |-> units[i].text]
        IN  /\ extract_outcome.ok
            /\ extract_outcome.val =
                  (IF Len(units) = 0 THEN "" ELSE JoinLines(texts) \o "\n")

C13_Witness ==
    /\ PdfRead
    /\ temp_dir[file_path].units = <<Unit("A"), Unit("B"), Unit("C")>>
    /\ extract_outcome.val = "A\nB\nC\n"

====
